---- MODULE Spec2Model ----
(***************************************************************************)
(* Model of backend/voice_recognition.py: class VoiceRecognizer.           *)
(*                                                                         *)
(* One recognizer instance, one controlling thread that calls              *)
(* listen_continuously / stop_listening, and the worker threads            *)
(* (audio_capture_thread closures) those calls spawn.  The speech          *)
(* library (microphone, recognizer, provider) and the two callbacks are    *)
(* the environment: every call into them returns or raises, chosen         *)
(* nondeterministically.                                                   *)
(***************************************************************************)
EXTENDS Integers, Sequences, FiniteSets, TLC

\* ------------------------------------------------------------------ bounds
\* calls of listen_continuously / stop_listening made
MaxCalls == 4
\* threads spawned by the lifecycle specification
MaxWorkers == 2
\* loop-body passes recorded per worker (session spec.)
MaxAttempts == 2
\* calls made by the controlling thread (session spec.)
MaxSessionCalls == 2
\* calls of callback counted for a thread after a stop
MaxLate == 2
\* calls made by the controlling thread (restart spec.)
MaxRestartCalls == 3

\* ------------------------------------------------------------ environment
None == 0                                   \* Python None, for handles
\* transcriptions the provider stub returns
Transcriptions == {<<>>, <<"A">>, <<"b">>, <<"A", "b">>}
NoText == [none |-> TRUE, v |-> <<>>]       \* Python None, for text
Str(s) == [none |-> FALSE, v |-> s]

Callbacks == {"onText1", "onText2"}
StatusCallbacks == {"None", "onStatus"}

\* What an environment may do.  record: the stubs (microphone, provider,
\* callbacks) keep a record of the calls they receive, in trace.  late: the
\* stubs count the calls a thread makes after a stop.
SessionEnv ==
    [record |-> TRUE, late |-> FALSE, attempts |-> MaxAttempts, workers |-> 1,
     calls |-> MaxSessionCalls, callbacks |-> {"onText1"},
     texts |-> Transcriptions]
LifecycleEnv ==
    [record |-> FALSE, late |-> FALSE, attempts |-> 0, workers |-> MaxWorkers,
     calls |-> MaxCalls, callbacks |-> Callbacks,
     texts |-> {<<"A">>}]
RestartEnv ==
    [LifecycleEnv EXCEPT !.late = TRUE, !.calls = MaxRestartCalls]

\* Outcomes of recognizer.recognize_google(audio, language="en-US").
ProviderOutcomes(env) ==
    {[kind |-> "text", v |-> t] : t \in env.texts}
      \cup {[kind |-> k, v |-> <<>>] :
              k \in {"UnknownValueError", "RequestError", "Exception"}}

\* Outcomes of recognizer.listen(source, timeout=1, phrase_time_limit=5).
ListenOutcomes == {"phrase", "WaitTimeoutError", "OSError"}

\* ------------------------------------------------------------------ state
VARIABLES
    is_listening,         \* self.is_listening
    microphone,           \* self.microphone: None or the id of the handle
    recognition_thread,   \* self.recognition_thread: None or a thread index
    microphone_context,   \* self._microphone_context: None or the source
    cpc,                  \* position of the controlling thread
    cargs,                \* callback, status_callback of the start under way
    call,                 \* the controlling thread's calls: how many, the
                          \* last one, the one before, and how the last
                          \* one ended (the return statement it reached)
    mics,                 \* number of sr.Microphone() objects constructed
    calibrations,         \* calls of adjust_for_ambient_noise, and how many
                          \* completed
    threads,              \* the audio_capture_thread threads, by index:
                          \* position, closure variables, locals, and
                          \* (history) whether a stop was called since the
                          \* thread started, with the captures it made
                          \* while the flag was cleared and the calls of
                          \* callback it made since the last stop
    trace                 \* per thread, the calls the stubs recorded

vars == <<is_listening, microphone, recognition_thread, microphone_context,
          cpc, cargs, call, mics, calibrations, threads, trace>>

self_vars == <<is_listening, microphone, recognition_thread,
               microphone_context>>

NoArgs == [callback |-> "None", status_callback |-> "None"]

\* VoiceRecognizer.__init__
Init ==
    /\ is_listening = FALSE
    /\ microphone = None
    /\ recognition_thread = None
    /\ microphone_context = None
    /\ cpc = "idle"
    /\ cargs = NoArgs
    /\ call = [n |-> 0, op |-> "none", prev |-> "none", out |-> "none",
               raised |-> "None"]
    /\ mics = 0
    /\ calibrations = [made |-> 0, completed |-> 0]
    /\ threads = <<>>
    /\ trace = <<>>

\* ------------------------------------------------------- pure computations
\* str.lower on the model's alphabet
LowerChar(c) == IF c = "A" THEN "a" ELSE c
Lower(s) == [i \in 1..Len(s) |-> LowerChar(s[i])]

\* recognize_audio returning the provider's text as it is
recognize_audio_verbatim(o) ==
    CASE o.kind = "text" -> [raised |-> FALSE, text |-> Str(o.v)]
      [] o.kind = "UnknownValueError" -> [raised |-> FALSE, text |-> NoText]
      [] o.kind = "RequestError" -> [raised |-> FALSE, text |-> NoText]
      [] OTHER -> [raised |-> TRUE, text |-> NoText]

\* VoiceRecognizer.recognize_audio: the value returned, or the exception
\* that leaves it, for one outcome of the provider call.
recognize_audio(o) ==
    CASE o.kind = "text" -> [raised |-> FALSE, text |-> Str(Lower(o.v))]
      [] o.kind = "UnknownValueError" -> [raised |-> FALSE, text |-> NoText]
      [] o.kind = "RequestError" -> [raised |-> FALSE, text |-> NoText]
      [] OTHER -> [raised |-> TRUE, text |-> NoText]

\* `if text is not None` in the place of `if text`
IsNotNone(t) == ~t.none

\* Python truth value of the result (line 93, `if text:`)
Truthy(t) == ~t.none /\ Len(t.v) > 0

\* f"error: {str(e)}"
ErrorStatus(e) ==
    CASE e = "OSError" -> "error: OSError"
      [] e = "Exception" -> "error: Exception"
      [] e = "CallbackError" -> "error: CallbackError"
      [] e = "StatusError" -> "error: StatusError"
      [] OTHER -> "error: "

\* ---------------------------------------------------------------- helpers
Event(ev, s, t) == [ev |-> ev, s |-> s, t |-> t]
Record(env, w, es) ==
    trace' = IF env.record THEN [trace EXCEPT ![w] = @ \o es] ELSE trace

\* the places of the events `ev` in a trace, and the passes through the
\* loop body a trace records
Places(tr, ev) == {i \in 1..Len(tr) : tr[i].ev = ev}
Iterations(tr) == Cardinality(Places(tr, "iter"))

Alive(w) == w \in 1..Len(threads) /\ threads[w].pc # "done"
At(w, pc) == w \in 1..Len(threads) /\ threads[w].pc = pc
Goto(w, pc) == threads' = [threads EXCEPT ![w].pc = pc]
Raise(w, e) == threads' = [threads EXCEPT ![w].pc = "except", ![w].exc = e]

\* the record of a call of the controlling thread: its number, the method,
\* the method called before it, how it came out, and the library call of
\* its initialisation that raised (lines 62-68), if one did
Invoke(op, out) ==
    [n |-> call.n + 1, op |-> op, prev |-> call.op, out |-> out,
     raised |-> "None"]
Return(out) == [call EXCEPT !.out = out]
Caught(out, e) == [call EXCEPT !.out = out, !.raised = e]

\* ------------------------------------------------ listen_continuously
\* StartCall without the guard of lines 55-56
StartCallUnguarded(env, cb, scb) ==
    /\ cpc = "idle"
    /\ call.n < env.calls
    /\ Len(threads) < env.workers
    /\ is_listening' = TRUE
    /\ call' = Invoke("start", "pending")
    /\ cargs' = [callback |-> cb, status_callback |-> scb]
    /\ cpc' = IF microphone = None THEN "acquire" ELSE "spawn"
    /\ UNCHANGED <<microphone, recognition_thread, microphone_context, mics,
                   calibrations, threads, trace>>

\* lines 55-58: the guard and the flag
StartCall(env, cb, scb) ==
    /\ cpc = "idle"
    /\ call.n < env.calls
    /\ is_listening \/ Len(threads) < env.workers
    /\ IF is_listening
       THEN /\ call' = Invoke("start", "already_listening")
            /\ UNCHANGED <<is_listening, cpc, cargs>>
       ELSE /\ is_listening' = TRUE
            /\ call' = Invoke("start", "pending")
            /\ cargs' = [callback |-> cb, status_callback |-> scb]
            /\ cpc' = IF microphone = None THEN "acquire" ELSE "spawn"
    /\ UNCHANGED <<microphone, recognition_thread, microphone_context, mics,
                   calibrations, threads, trace>>

\* StartInitFailed dropping the handle it could not initialise
StartInitFailedDropsHandle(e) ==
    /\ is_listening' = FALSE
    /\ microphone' = None
    /\ cpc' = "idle"
    /\ cargs' = NoArgs
    /\ call' = Caught("init_failed", e)

\* StartInitFailed without line 72: the handler falls through to the
\* creation of the thread
StartInitFailedFallsThrough(e) ==
    /\ is_listening' = FALSE
    /\ microphone' = microphone
    /\ cpc' = "spawn"
    /\ cargs' = cargs
    /\ call' = Caught("pending", e)

\* lines 69-72: the handler of a failed initialisation, `except Exception
\* as e` for the exception raised by the library call e
StartInitFailed(e) ==
    /\ is_listening' = FALSE
    /\ microphone' = microphone
    /\ cpc' = "idle"
    /\ cargs' = NoArgs
    /\ call' = Caught("init_failed", e)

\* lines 61-63: sr.Microphone() returns a handle or raises
StartAcquire ==
    /\ cpc = "acquire"
    /\ \/ /\ microphone' = mics + 1
          /\ mics' = mics + 1
          /\ cpc' = "calibrate"
          /\ UNCHANGED <<is_listening, cargs, call>>
       \/ /\ StartInitFailed("Microphone")
          /\ UNCHANGED mics
    /\ UNCHANGED <<recognition_thread, microphone_context, calibrations,
                   threads, trace>>

\* line 66: `with self.microphone as source` is entered, or raises
StartCalibrateEnter ==
    /\ cpc = "calibrate"
    /\ \/ /\ cpc' = "calibrating"
          /\ UNCHANGED <<is_listening, microphone, cargs, call>>
       \/ StartInitFailed("__enter__")
    /\ UNCHANGED <<recognition_thread, microphone_context, mics,
                   calibrations, threads, trace>>

\* Outcomes of adjust_for_ambient_noise(source, duration=1) and of the
\* __exit__ of the microphone context that follows it. self.microphone is
\* always the sr.Microphone built at line 63 (the class takes no handle from
\* its caller), whose __exit__ closes the audio stream and returns None: it
\* returns or raises, and never suppresses an exception of the block.
AdjustOutcomes == {"returns", "raises"}
ExitOutcomes == {"returns", "raises"}

\* After the block of lines 66-67 the method goes on to line 68 when
\* neither the block nor __exit__ raised; otherwise the handler of lines
\* 69-72 runs.
CalibrationPassed(adjust, exit) == adjust = "returns" /\ exit = "returns"

\* The exception the handler receives: the one __exit__ raised, which
\* replaces the one of the block, or else the one of the block.
CalibrationRaised(adjust, exit) ==
    IF exit = "raises" THEN "__exit__" ELSE "adjust_for_ambient_noise"

\* lines 67-68: adjust_for_ambient_noise returns or raises, and the
\* microphone context of line 66 is left
StartCalibrate ==
    /\ cpc = "calibrating"
    /\ \E adjust \in AdjustOutcomes, exit \in ExitOutcomes :
         /\ calibrations' =
               [made |-> calibrations.made + 1,
                completed |-> IF adjust = "returns"
                              THEN calibrations.completed + 1
                              ELSE calibrations.completed]
         /\ IF CalibrationPassed(adjust, exit)
            THEN /\ cpc' = "spawn"
                 /\ UNCHANGED <<is_listening, microphone, cargs, call>>
            ELSE StartInitFailed(CalibrationRaised(adjust, exit))
    /\ UNCHANGED <<recognition_thread, microphone_context, mics,
                   threads, trace>>

NoneAfter == [listens |-> 0, callbacks |-> 0]
NewThread(args) ==
    [pc |-> "enter", callback |-> args.callback,
     status_callback |-> args.status_callback, text |-> NoText,
     exc |-> "None", stopped |-> FALSE, after |-> NoneAfter]

\* lines 110-111: the thread is created and started
StartSpawn ==
    /\ cpc = "spawn"
    /\ threads' = Append(threads, NewThread(cargs))
    /\ trace' = Append(trace, <<>>)
    /\ recognition_thread' = Len(threads) + 1
    /\ cpc' = "idle"
    /\ cargs' = NoArgs
    /\ call' = Return("started")
    /\ UNCHANGED <<is_listening, microphone, microphone_context, mics,
                   calibrations>>

\* ------------------------------------------------------- stop_listening
\* lines 115-117, and line 120 when there is no thread to join
StopCall(env) ==
    /\ cpc = "idle"
    /\ call.n < env.calls
    /\ is_listening' = FALSE
    /\ IF recognition_thread # None
       THEN /\ cpc' = "join"
            /\ call' = Invoke("stop", "pending")
            /\ UNCHANGED microphone_context
       ELSE /\ microphone_context' = None
            /\ call' = Invoke("stop", "stopped")
            /\ UNCHANGED cpc
    /\ threads' = IF env.late
                  THEN [w \in 1..Len(threads) |->
                          [threads[w] EXCEPT !.stopped = TRUE,
                                             !.after = NoneAfter]]
                  ELSE threads
    /\ UNCHANGED <<microphone, recognition_thread, cargs, mics, calibrations,
                   trace>>

\* StopJoin forgetting the thread it joined
StopJoinClearsThread ==
    /\ cpc = "join"
    /\ microphone_context' = None
    /\ recognition_thread' = None
    /\ cpc' = "idle"
    /\ call' = Return("stopped")
    /\ UNCHANGED <<is_listening, microphone, cargs, mics, calibrations,
                   threads, trace>>

\* StopJoin with join() in the place of join(timeout=2)
StopJoinUnbounded ==
    /\ cpc = "join"
    /\ ~Alive(recognition_thread)
    /\ microphone_context' = None
    /\ cpc' = "idle"
    /\ call' = Return("stopped")
    /\ UNCHANGED <<is_listening, microphone, recognition_thread, cargs, mics,
                   calibrations, threads, trace>>

\* lines 118-120: join(timeout=2) returns, the thread finished or not
StopJoin ==
    /\ cpc = "join"
    /\ microphone_context' = None
    /\ cpc' = "idle"
    /\ call' = Return("stopped")
    /\ UNCHANGED <<is_listening, microphone, recognition_thread, cargs, mics,
                   calibrations, threads, trace>>

\* ------------------------------------------------- audio_capture_thread
\* lines 77-78: `with self.microphone as source` is entered, or raises and
\* the outer handler (lines 104-105) takes over
WorkerEnter(env, w) ==
    /\ At(w, "enter")
    /\ \/ /\ microphone_context' = microphone
          /\ Goto(w, "while")
       \/ /\ Goto(w, "finally")
          /\ UNCHANGED microphone_context
    /\ UNCHANGED <<is_listening, microphone, recognition_thread, cpc, cargs,
                   call, mics, calibrations, trace>>

\* WorkerLoopTest reading the flag once, when the thread starts
WorkerLoopTestStale(env, w) ==
    /\ At(w, "while")
    /\ env.record => Iterations(trace[w]) < env.attempts
    /\ Goto(w, "status_listening")
    /\ Record(env, w, <<Event("iter", "", NoText)>>)
    /\ UNCHANGED <<self_vars, cpc, cargs, call, mics, calibrations>>

\* line 79: `while self.is_listening`; a thread that reads the flag as
\* false leaves the loop and begins to leave the microphone context
WorkerLoopTest(env, w) ==
    /\ At(w, "while")
    /\ IF is_listening
       THEN /\ env.record => Iterations(trace[w]) < env.attempts
            /\ Goto(w, "status_listening")
            /\ Record(env, w, <<Event("iter", "", NoText)>>)
       ELSE /\ Goto(w, "exit")
            /\ UNCHANGED trace
    /\ UNCHANGED <<self_vars, cpc, cargs, call, mics, calibrations>>

\* `if status_callback: status_callback(s)`: no call, or a call that returns
\* and lets the thread go on to `to`, or a call that raises e and sends the
\* thread to the handler at `handler`.
StatusCall(env, w, s, to, handler, e) ==
    IF threads[w].status_callback = "None"
    THEN /\ threads' = [threads EXCEPT ![w].pc = to, ![w].exc = "None"]
         /\ UNCHANGED trace
    ELSE /\ Record(env, w, <<Event("status", s, NoText)>>)
         /\ \/ threads' = [threads EXCEPT ![w].pc = to, ![w].exc = "None"]
            \/ threads' = [threads EXCEPT ![w].pc = handler, ![w].exc = e]

\* lines 81-82
WorkerStatusListening(env, w) ==
    /\ At(w, "status_listening")
    /\ StatusCall(env, w, "listening", "listen", "except", "StatusError")
    /\ UNCHANGED <<self_vars, cpc, cargs, call, mics, calibrations>>

\* The thread has made a call of recognizer.listen and goes to pc.
Listened(env, w, pc, e) ==
    threads' = [threads EXCEPT
        ![w].pc = pc, ![w].exc = e,
        ![w].after.listens =
            IF env.late /\ threads[w].stopped /\ ~is_listening
            THEN @ + 1 ELSE @]

\* WorkerListen with the timeout handled as a captured phrase
WorkerListenNoTimeout(env, w) ==
    /\ At(w, "listen")
    /\ \E o \in ListenOutcomes :
         /\ Record(env, w, <<Event("listen", o, NoText)>>)
         /\ CASE o = "phrase" -> Listened(env, w, "status_processing", "None")
              [] o = "WaitTimeoutError" ->
                    Listened(env, w, "status_processing", "None")
              [] OTHER -> Listened(env, w, "except", o)
    /\ UNCHANGED <<self_vars, cpc, cargs, call, mics, calibrations>>

\* line 85, and lines 96-98 for the timeout
WorkerListen(env, w) ==
    /\ At(w, "listen")
    /\ \E o \in ListenOutcomes :
         /\ Record(env, w, <<Event("listen", o, NoText)>>)
         /\ CASE o = "phrase" -> Listened(env, w, "status_processing", "None")
              [] o = "WaitTimeoutError" -> Listened(env, w, "while", "None")
              [] OTHER -> Listened(env, w, "except", o)
    /\ UNCHANGED <<self_vars, cpc, cargs, call, mics, calibrations>>

\* lines 87-88
WorkerStatusProcessing(env, w) ==
    /\ At(w, "status_processing")
    /\ StatusCall(env, w, "processing", "recognize", "except", "StatusError")
    /\ UNCHANGED <<self_vars, cpc, cargs, call, mics, calibrations>>

\* lines 91-93: recognize_audio on the captured phrase, and the test of
\* its result
WorkerRecognize(env, w) ==
    /\ At(w, "recognize")
    /\ \E o \in ProviderOutcomes(env) :
         LET r == recognize_audio(o) IN
         /\ Record(env, w,
               <<Event("provider", o.kind, Str(o.v)),
                 Event(IF r.raised THEN "recognize_raise" ELSE "recognize",
                       "", r.text)>>)
         /\ IF r.raised THEN Raise(w, o.kind)
            ELSE IF Truthy(r.text)
            THEN threads' = [threads EXCEPT ![w].pc = "callback",
                                            ![w].text = r.text]
            ELSE Goto(w, "while")
    /\ UNCHANGED <<self_vars, cpc, cargs, call, mics, calibrations>>

\* The thread has made a call of callback and goes to pc.
Called(env, w, pc, e) ==
    threads' = [threads EXCEPT
        ![w].pc = pc, ![w].exc = e, ![w].text = NoText,
        ![w].after.callbacks =
            IF env.late /\ threads[w].stopped /\ @ < MaxLate
            THEN @ + 1 ELSE @]

\* line 94: callback(text) returns or raises
WorkerCallback(env, w) ==
    /\ At(w, "callback")
    /\ Record(env, w,
          <<Event("callback", threads[w].callback, threads[w].text)>>)
    /\ \/ Called(env, w, "while", "None")
       \/ Called(env, w, "except", "CallbackError")
    /\ UNCHANGED <<self_vars, cpc, cargs, call, mics, calibrations>>

\* lines 99-103: the handler of an iteration's exception; an exception
\* raised by status_callback here leaves the loop and the microphone
\* context, on its way to the outer handler (lines 104-105)
WorkerExcept(env, w) ==
    /\ At(w, "except")
    /\ StatusCall(env, w, ErrorStatus(threads[w].exc), "while", "exit",
                  "None")
    /\ UNCHANGED <<self_vars, cpc, cargs, call, mics, calibrations>>

\* line 77, on the way out: the __exit__ of `with self.microphone as
\* source` ends. Whether it returns, raises (lines 104-105) or suppresses
\* the exception that left the loop, the thread is at line 107 next; until
\* then it is inside the microphone context, and other threads run.
WorkerExit(env, w) ==
    /\ At(w, "exit")
    /\ Goto(w, "finally")
    /\ UNCHANGED <<self_vars, cpc, cargs, call, mics, calibrations, trace>>

\* lines 106-107, and the end of the thread
WorkerFinally(env, w) ==
    /\ At(w, "finally")
    /\ microphone_context' = None
    /\ Goto(w, "done")
    /\ UNCHANGED <<is_listening, microphone, recognition_thread, cpc, cargs,
                   call, mics, calibrations, trace>>

WorkerStep(env, w) ==
    \/ WorkerEnter(env, w)
    \/ WorkerLoopTest(env, w)
    \/ WorkerStatusListening(env, w)
    \/ WorkerListen(env, w)
    \/ WorkerStatusProcessing(env, w)
    \/ WorkerRecognize(env, w)
    \/ WorkerCallback(env, w)
    \/ WorkerExcept(env, w)
    \/ WorkerExit(env, w)
    \/ WorkerFinally(env, w)

\* ------------------------------------------------------- specifications
Step(env) ==
    \/ \E cb \in env.callbacks, scb \in StatusCallbacks : StartCall(env, cb, scb)
    \/ StartAcquire
    \/ StartCalibrateEnter
    \/ StartCalibrate
    \/ StartSpawn
    \/ StopCall(env)
    \/ StopJoin
    \/ \E w \in 1..Len(threads) : WorkerEnter(env, w)
    \/ \E w \in 1..Len(threads) : WorkerLoopTest(env, w)
    \/ \E w \in 1..Len(threads) : WorkerStatusListening(env, w)
    \/ \E w \in 1..Len(threads) : WorkerListen(env, w)
    \/ \E w \in 1..Len(threads) : WorkerStatusProcessing(env, w)
    \/ \E w \in 1..Len(threads) : WorkerRecognize(env, w)
    \/ \E w \in 1..Len(threads) : WorkerCallback(env, w)
    \/ \E w \in 1..Len(threads) : WorkerExcept(env, w)
    \/ \E w \in 1..Len(threads) : WorkerExit(env, w)
    \/ \E w \in 1..Len(threads) : WorkerFinally(env, w)

\* Start/stop cycles of one recognizer, with every thread they spawn.
Next == Step(LifecycleEnv)
Spec == Init /\ [][Next]_vars

\* The same with one text callback, every thread being scheduled as long
\* as it can take a step.
FairEnv == [LifecycleEnv EXCEPT !.callbacks = {"onText1"}]
FairNext == Step(FairEnv)
FairSpec ==
    /\ Init /\ [][FairNext]_vars
    /\ \A w \in 1..MaxWorkers : WF_vars(WorkerStep(FairEnv, w))

\* The controlling thread runs stop_listening to its end; the threads it
\* started may stay blocked for ever.
JoinFairSpec == Init /\ [][FairNext]_vars /\ WF_vars(StopJoin)

\* Start/stop cycles against stubs that count the late calls.
RestartNext == Step(RestartEnv)
RestartSpec == Init /\ [][RestartNext]_vars

\* One listening session against recording stubs.
SessionNext == Step(SessionEnv)
SessionSpec == Init /\ [][SessionNext]_vars

\* ----------------------------------------------------------------- claims
Threads == 1..Len(threads)
\* a thread that has not left its capture loop (lines 77-103)
InSession(w) == threads[w].pc \notin {"exit", "finally", "done"}
StartInvoked == call'.n = call.n + 1 /\ call'.op = "start"
StopInvoked == call'.n = call.n + 1 /\ call'.op = "stop"

\* C1: at most one worker thread of the recognizer is alive (has not left
\* its capture loop) in every reachable state, for every interleaving of
\* start, stop (its join allowed to time out) and worker steps.
C1_AtMostOneWorkerAlive ==
    Cardinality({w \in Threads : InSession(w)}) <= 1

\* C2: a start call made while the listening flag is true returns at once:
\* no thread is spawned, no microphone acquired, no calibration run, and
\* is_listening, microphone, recognition_thread, _microphone_context and
\* the threads with their callbacks are unchanged.
C2_StartWhileListeningIsNoOp ==
    [][(StartInvoked /\ is_listening) =>
          /\ UNCHANGED <<self_vars, threads, trace, mics, calibrations>>
          /\ cpc' = "idle"
          /\ call'.out = "already_listening"]_vars

\* a start made while a worker was running has returned on line 56
C2_Witness ==
    /\ call.op = "start" /\ call.out = "already_listening"
    /\ call.prev = "start"
    /\ is_listening
    /\ \E w \in Threads : threads[w].pc = "listen"

\* C3: over any number of start/stop cycles adjust_for_ambient_noise is
\* called at most once, the microphone handle once set is never replaced
\* or reset, and a thread is spawned exactly when a start gets past the
\* initialisation: one new thread, which becomes recognition_thread.
C3_OneCalibrationOneHandleOneThreadPerStart ==
    /\ [](calibrations.made <= 1 /\ mics <= 1)
    /\ [][/\ microphone # None => microphone' = microphone
          /\ (call.out = "pending" /\ call'.out = "started") =>
                /\ Len(threads') = Len(threads) + 1
                /\ recognition_thread' = Len(threads')
                /\ threads'[Len(threads')].pc = "enter"
          /\ Len(threads') # Len(threads) =>
                call.out = "pending" /\ call'.out = "started"]_vars

\* a second session was started on the handle the first one calibrated
C3_Witness ==
    /\ Len(threads) = 2
    /\ call.op = "start" /\ call.out = "started" /\ call.prev = "stop"
    /\ calibrations = [made |-> 1, completed |-> 1]
    /\ microphone = 1 /\ mics = 1

\* The texts of the events `ev` of a trace, in order.
TextsOf(tr, ev) ==
    LET sel == SelectSeq(tr, LAMBDA e : e.ev = ev)
    IN  [i \in 1..Len(sel) |-> sel[i].t]
\* what the calls of callback received, and what the calls of
\* recognize_audio returned
Delivered(w) == TextsOf(trace[w], "callback")
Results(w) == TextsOf(trace[w], "recognize")
\* the results still to be delivered: the one in hand at line 94
InHand(w) == IF threads[w].pc = "callback" THEN <<threads[w].text>> ELSE <<>>

\* C4 as claimed: in a session callback is called exactly once for each
\* phrase whose recognize_audio result is not None, with that result and in
\* capture order, and for nothing else.
C4_OnTextForEveryResultNotNone ==
    \A w \in Threads :
        Delivered(w) \o InHand(w) =
            SelectSeq(Results(w), LAMBDA t : ~t.none)

\* C4 as amended: in a session callback is called exactly once for each
\* phrase whose recognize_audio result is neither None nor the empty
\* string, with that result and in capture order, and for nothing else.
C4_OnTextForEveryNonEmptyResult ==
    \A w \in Threads :
        Delivered(w) \o InHand(w) =
            SelectSeq(Results(w), LAMBDA t : ~t.none /\ t.v # <<>>)

\* two phrases were delivered, in the order of their capture
C4_Witness ==
    \E w \in Threads :
        /\ Results(w) = <<Str(<<"b">>), Str(<<"a">>)>>
        /\ Delivered(w) = <<Str(<<"b">>), Str(<<"a">>)>>

IsStatus(e, s) == e.ev = "status" /\ e.s = s
IsPhrase(e) == e.ev = "listen" /\ e.s = "phrase"
StatusCount(tr, s) == Cardinality({i \in 1..Len(tr) : IsStatus(tr[i], s)})

\* C5 as claimed: with a status callback, every pass through the loop body
\* (phrase, timeout or error) reports "listening" and then "processing",
\* each exactly once.
C5_ListeningAndProcessingEveryPass ==
    \A w \in Threads :
        (threads[w].status_callback # "None" /\ threads[w].pc = "while") =>
            /\ StatusCount(trace[w], "listening") = Iterations(trace[w])
            /\ StatusCount(trace[w], "processing") = Iterations(trace[w])

\* C5 as amended: with a status callback, every pass through the loop body
\* reports "listening" exactly once, first of all; it reports "processing"
\* exactly once, right after the capture, when the capture returned a
\* phrase, and not at all when the capture timed out or raised.
C5_ListeningEveryPassProcessingEveryPhrase ==
    \A w \in Threads :
        LET tr == trace[w] IN
        threads[w].status_callback # "None" =>
            \A i \in 1..Len(tr) :
                /\ tr[i].ev = "iter" =>
                      IF i < Len(tr) THEN IsStatus(tr[i + 1], "listening")
                      ELSE threads[w].pc = "status_listening"
                /\ IsStatus(tr[i], "listening") => i > 1 /\ tr[i - 1].ev = "iter"
                /\ tr[i].ev = "listen" => IsStatus(tr[i - 1], "listening")
                /\ IsPhrase(tr[i]) =>
                      IF i < Len(tr) THEN IsStatus(tr[i + 1], "processing")
                      ELSE threads[w].pc = "status_processing"
                /\ IsStatus(tr[i], "processing") => i > 1 /\ IsPhrase(tr[i - 1])

\* a pass that timed out and a pass that captured a phrase, both reported
C5_Witness ==
    \E w \in Threads :
        /\ threads[w].status_callback = "onStatus"
        /\ Len(trace[w]) >= 7
        /\ SubSeq(trace[w], 1, 7) =
              <<Event("iter", "", NoText),
                Event("status", "listening", NoText),
                Event("listen", "WaitTimeoutError", NoText),
                Event("iter", "", NoText),
                Event("status", "listening", NoText),
                Event("listen", "phrase", NoText),
                Event("status", "processing", NoText)>>

InitPositions == {"acquire", "calibrate", "calibrating"}
\* the library calls of the initialisation (lines 63, 66 and 67)
InitCalls == {"Microphone", "__enter__", "adjust_for_ambient_noise", "__exit__"}
\* a library call of the initialisation raises in this step
InitRaises == call.raised = "None" /\ call'.raised # "None"

\* C6: when sr.Microphone(), entering or leaving its context, or the
\* calibration raises during start, start returns normally, is_listening
\* is False afterwards and no thread is spawned, whichever of the calls
\* raised and whether or not the calibration had completed; it stays so
\* until the next call.
C6_InitFailureAbortsStart ==
    /\ [][InitRaises =>
            /\ cpc \in InitPositions /\ call.op = "start"
            /\ call'.raised \in InitCalls
            /\ cpc' = "idle"
            /\ call'.op = "start" /\ call'.out = "init_failed"
            /\ ~is_listening'
            /\ threads' = threads
            /\ recognition_thread' = recognition_thread]_vars
    /\ [][(call.raised # "None" /\ call'.n = call.n) =>
            /\ Len(threads') = Len(threads)
            /\ recognition_thread' = recognition_thread]_vars
    /\ [](call.raised # "None" =>
            /\ cpc = "idle" /\ ~is_listening
            /\ call.op = "start" /\ call.out = "init_failed")

\* a start whose calibration raised has returned
C6_Witness ==
    /\ call.op = "start" /\ call.out = "init_failed"
    /\ call.raised = "adjust_for_ambient_noise"
    /\ calibrations = [made |-> 1, completed |-> 0]
    /\ cpc = "idle" /\ ~is_listening /\ threads = <<>>

\* r is p in lower case
IsLowered(r, p) ==
    /\ Len(r) = Len(p)
    /\ \A k \in 1..Len(p) : r[k] = (IF p[k] = "A" THEN "a" ELSE p[k])

\* C7: recognize_audio returns the provider's transcription in lower case,
\* returns None without raising when the provider raises UnknownValueError
\* or RequestError, and changes no field of the recognizer.
C7_RecognizeAudio ==
    /\ [](\A w \in Threads : \A i \in Places(trace[w], "provider") :
            LET p == trace[w][i]
                r == trace[w][i + 1]
            IN  /\ p.s = "text" =>
                      r.ev = "recognize" /\ ~r.t.none /\ IsLowered(r.t.v, p.t.v)
                /\ p.s \in {"UnknownValueError", "RequestError"} =>
                      r.ev = "recognize" /\ r.t = NoText)
    /\ [][\A w \in Threads :
            (threads[w].pc = "recognize" /\ threads'[w].pc # "recognize") =>
                UNCHANGED <<self_vars, mics, calibrations>>]_vars

\* a transcription was returned in lower case, and a failed request as None
C7_Witness ==
    \E w \in Threads : \E i, j \in Places(trace[w], "provider") :
        /\ trace[w][i].s = "text" /\ trace[w][i].t = Str(<<"A", "b">>)
        /\ trace[w][i + 1] = Event("recognize", "", Str(<<"a", "b">>))
        /\ trace[w][j].s = "RequestError"
        /\ trace[w][j + 1] = Event("recognize", "", NoText)

\* C8: while is_listening stays true, an exception raised inside one pass
\* of the loop (by listen, recognize_audio, callback or status_callback)
\* does not end the thread: it is reported as "error: ..." when there is a
\* status callback, and the thread goes back to the loop test.
C8_IterationFailureNeverEndsWorker ==
    [][\A w \in Threads :
          (threads[w].pc = "except" /\ threads'[w].pc # "except"
              /\ is_listening /\ is_listening') =>
                /\ threads'[w].pc = "while"
                /\ threads[w].status_callback # "None" =>
                      trace'[w] = Append(trace[w],
                          Event("status", ErrorStatus(threads[w].exc), NoText))
      ]_vars

\* C9: stop called with the flag false and no live worker does not raise
\* and leaves is_listening, microphone and recognition_thread unchanged; a
\* stop that follows a stop leaves them unchanged too, and every stop
\* returns with is_listening False and _microphone_context None.
C9_StopWhenIdleChangesNothing ==
    [][/\ (StopInvoked /\ ~is_listening
              /\ \A w \in Threads : threads[w].pc = "done") =>
                /\ UNCHANGED <<is_listening, microphone, recognition_thread>>
                /\ call'.out \in {"pending", "stopped"}
       /\ (StopInvoked /\ call.op = "stop") =>
                UNCHANGED <<is_listening, microphone, recognition_thread>>
       /\ (call'.op = "stop" /\ call'.out = "stopped" /\ call' # call) =>
                /\ ~is_listening'
                /\ microphone_context' = None
                /\ UNCHANGED <<microphone, recognition_thread>>]_vars

\* stop was called twice in a row after a session whose worker has ended
C9_Witness ==
    /\ call.op = "stop" /\ call.prev = "stop" /\ call.out = "stopped"
    /\ recognition_thread # None
    /\ \A w \in Threads : threads[w].pc = "done"

\* C10: once the flag is cleared, every live worker ends unless a start
\* sets the flag again, provided the threads are scheduled and every call
\* they make returns.
C10_WorkerExitsAfterStop ==
    \A w \in 1..MaxWorkers :
        (w \in Threads /\ Alive(w) /\ ~is_listening)
            ~> (is_listening \/ (w \in Threads /\ ~Alive(w)))

\* a worker that was running has ended after a stop
C10_Witness ==
    /\ call.op = "stop" /\ ~is_listening
    /\ \E w \in Threads : threads[w].pc = "done"

\* C11: stop always returns to its caller with is_listening False, also
\* when the worker never ends: the join is bounded and stop does not wait
\* for the worker beyond it.
C11_StopReturns ==
    (cpc = "join") ~>
        (cpc = "idle" /\ call.op = "stop" /\ call.out = "stopped"
            /\ ~is_listening)

\* stop has returned while the thread it joined is still running
C11_Witness ==
    /\ cpc = "idle" /\ call.op = "stop" /\ call.out = "stopped"
    /\ ~is_listening
    /\ recognition_thread # None
    /\ threads[recognition_thread].pc = "recognize"

\* C12: whenever a worker begins capturing audio from the microphone
\* handle, adjust_for_ambient_noise has completed on that handle before,
\* also when a start whose initialisation failed is followed by another.
C12_CalibratedBeforeCapture ==
    \A w \in Threads :
        threads[w].pc = "listen" =>
            microphone # None /\ calibrations.completed >= 1

\* the threads inside recognize_audio or callback, and those inside listen
Handling == {w \in Threads : threads[w].pc \in {"recognize", "callback"}}
Capturing == {w \in Threads : threads[w].pc = "listen"}

\* C13: for one recognizer, phrases are handled strictly one after the
\* other in every reachable state: no two calls of recognize_audio or
\* callback are under way at once, and no capture is under way while a
\* captured phrase is still being recognized or delivered.
C13_PhrasesHandledOneAtATime ==
    /\ Cardinality(Handling) <= 1
    /\ Handling # {} => Capturing = {}

\* C14: once stop has cleared the flag and no start has followed, a worker
\* makes at most one more capture and at most one more call of callback
\* (the pass under way is completed, not interrupted), and nothing after:
\* no capture after that capture, no capture, recognition or callback
\* after that callback.
C14_AtMostOneMorePassAfterStop ==
    ~is_listening =>
        \A w \in Threads :
            /\ threads[w].after.listens <= 1
            /\ threads[w].after.callbacks <= 1
            /\ threads[w].after.listens = 1 =>
                  threads[w].pc \notin {"status_listening", "listen"}
            /\ threads[w].after.callbacks = 1 =>
                  threads[w].pc \in
                      {"while", "except", "exit", "finally", "done"}

\* a worker has ended after the one capture and the one call of callback
\* it made with the flag cleared
C14_Witness ==
    /\ ~is_listening /\ call.op = "stop"
    /\ \E w \in Threads :
          /\ threads[w].pc = "done"
          /\ threads[w].after = [listens |-> 1, callbacks |-> 1]

\* the threads inside `with self.microphone as source` (lines 78-103),
\* those that are leaving it included
InContext ==
    {w \in Threads : threads[w].pc \notin {"enter", "finally", "done"}}

\* C15: the microphone handle is used by one thread at a time: the
\* controlling thread calibrates it only while no worker is inside the
\* microphone context, and no two workers are inside that context at once.
C15_MicrophoneUsedByOneThread ==
    /\ cpc = "calibrating" => InContext = {}
    /\ Cardinality(InContext) <= 1

\* C16: whenever is_listening is true and no start is under way, a worker
\* thread is alive: the flag never says listening while no worker runs.
C16_ListeningImpliesWorkerAlive ==
    (is_listening /\ cpc = "idle") => \E w \in Threads : Alive(w)

\* C17: a worker whose session was ended by stop ends even when start is
\* called again before it has seen the cleared flag; so once a stop has
\* been followed by a start that spawned a new worker, the earlier worker
\* calls its callback at most one more time.
C17_StoppedWorkerCallsBackAtMostOnce ==
    \A w \in Threads :
        (/\ threads[w].stopped
         /\ recognition_thread \notin {None, w}
         /\ threads[recognition_thread].callback # threads[w].callback) =>
            threads[w].after.callbacks <= 1

====
